---- MODULE Spec2Model ----
(***************************************************************************)
(* Model of the uinput virtual device of evdev (src/src/uinput.rs):        *)
(* VirtualDeviceBuilder (open, name, input_id, with_<category>, build),    *)
(* VirtualDevice::new / open_event_file, and VirtualDevice::emit and the   *)
(* state queries.  The kernel side of every system call the code makes     *)
(* (ioctl, write, read_dir, open) is modelled at the call site: a call     *)
(* either fails, and the `?` of the code returns the error, or succeeds    *)
(* with the effect the call has on the uinput device behind the handle.    *)
(***************************************************************************)
EXTENDS Integers, Sequences, FiniteSets, TLC

VARIABLES
    stage,      \* "none" | "builder" | "device" | "closed" | "panicked"
    file,       \* the control handle owned by the builder / device (0: none)
    name,       \* VirtualDeviceBuilder.name, a byte string
    id,         \* VirtualDeviceBuilder.id: <<>> (None) or <<input_id>> (Some)
    decls,      \* number of with_<category> calls made on this builder
    asked,      \* per category, the codes passed to with_<category> calls that returned Ok
    builds,     \* number of build() calls made on this builder
    log,        \* the kernel calls issued on this control handle, in order
    kstate,     \* uinput state behind the handle: "new" | "setup" | "created" | "gone"
    kevbit,     \* event types declared on the handle (UI_SET_EVBIT)
    kbits,      \* per category, the codes declared on the handle (UI_SET_<X>BIT)
    ksetup,     \* the uinput_setup record the kernel received: <<>> or <<usetup>>
    file_event, \* VirtualDevice.file_event: <<>> or <<name of the node opened under /dev/input>>
    err,        \* the io::Error that ended the construction: <<>> or <<error>>
    ktopo,      \* the topology directory of the device the kernel created for a built
                \* VirtualDevice: <<>> or <<[name, listing]>>
    pc,         \* per thread, its position in emit: "idle" | "syn"
    borrow,     \* the thread holding the &mut VirtualDevice borrow (0: none)
    call,       \* the emit call in progress or returned last (NoCall once a query followed):
                \* its thread, its argument, the records it wrote, its result
    kval,       \* kernel-held state of the device: per queried category, the codes that are on
    lastEv,     \* per key code, the value of the key event passed to emit last (-1 before any)
    allOk,      \* every emit call so far returned Ok
    qres,       \* <<result>> of the last key-state query since the last emit, else <<>>
    prevq,      \* <<result>> of the key-state query before that one, else <<>>
    qcall       \* <<the ioctl>> of the last state query since the last emit, else <<>>

vars == <<stage, file, name, id, decls, asked, builds, log, kstate, kevbit,
          kbits, ksetup, file_event, err, ktopo, pc, borrow, call, kval,
          lastEv, allOk, qres, prevq, qcall>>

builderVars == <<stage, file, name, id, decls, asked, builds, log, kstate,
                 kevbit, kbits, ksetup, file_event, err, ktopo>>

deviceVars == <<pc, borrow, call, kval, lastEv, allOk, qres, prevq, qcall>>

----------------------------------------------------------------------------
(* Bounds of the model.                                                    *)

\* with_<category> calls per builder
MaxDecls == 2
\* event records passed to one emit call
MaxLen == 2

(* Program constants.                                                      *)

\* libc::UINPUT_MAX_NAME_SIZE, the capacity of uinput_setup.name
UINPUT_MAX_NAME_SIZE == 80
\* the size of the buffer handed to ui_get_sysname
SYSNAME_BUF == 32

\* attribute codes the example program uses
KEY_A == 30
KEY_CAPSLOCK == 58
LED_CAPSL == 1
LED_SCROLLL == 2
MSC_SCAN == 4

Categories == {"KEY", "MSC", "LED", "REL", "SW"}

\* the codes the caller's attribute sets are drawn from, per category
CodesOf(cat) ==
    CASE cat = "KEY" -> {KEY_A, KEY_CAPSLOCK}
      [] cat = "LED" -> {LED_CAPSL, LED_SCROLLL}
      [] cat = "MSC" -> {MSC_SCAN}
      [] cat = "REL" -> {0}
      [] cat = "SW" -> {0}

KeyCodes == CodesOf("KEY")
\* the two threads that share the device
Threads == {1, 2}

----------------------------------------------------------------------------
(* Byte strings.                                                           *)

\* a name of L bytes, none of them zero
NameOfLen(L) == [i \in 1..L |-> 65 + (i % 26)]

\* the lengths of the names the caller passes to name(): the ones around the
\* capacity of the name buffer (a builder that name() is not called on has
\* the empty name)
NameLens == {UINPUT_MAX_NAME_SIZE - 2, UINPUT_MAX_NAME_SIZE - 1, UINPUT_MAX_NAME_SIZE}

StartsWith(s, p) == Len(s) >= Len(p) /\ SubSeq(s, 1, Len(p)) = p

----------------------------------------------------------------------------
(* The builder: VirtualDeviceBuilder.                                      *)

\* const UINPUT_PATH
UINPUT_PATH == "/dev/uinput"

\* BusType::BUS_USB
BUS_USB == 3

\* const DEFAULT_ID
DEFAULT_ID == [bustype |-> BUS_USB, vendor |-> 4660, product |-> 22136, version |-> 273]

\* the bus identities a caller passes to input_id()
InputIds == {[bustype |-> 5, vendor |-> 1, product |-> 2, version |-> 3]}

\* AttributeSetRef::iter: the codes of a set, in ascending order
RECURSIVE Iter(_)
Iter(set) ==
    IF set = {} THEN <<>>
    ELSE LET m == CHOOSE x \in set : \A y \in set : x <= y
         IN  <<m>> \o Iter(set \ {m})

\* the errno values a failing kernel call is given here
Errnos == {"ENOENT", "EACCES"}

\* io::Error::from(errno), what the `?` after a kernel call returns: the OS
\* error and the kind std derives from it
OsError(e) ==
    [kind |-> IF e = "ENOENT" THEN "NotFound" ELSE "PermissionDenied", os |-> <<e>>]

\* a bug: the error the code makes is of another kind
NotFoundErrorOther == [kind |-> "Other", os |-> <<>>]

\* io::Error::new(io::ErrorKind::NotFound, ..): an error made by the code,
\* carrying no OS error
NotFoundError == [kind |-> "NotFound", os |-> <<>>]

\* one kernel call on the control handle, as the log records it
Call(op, cat, code) == [op |-> op, cat |-> cat, code |-> code, path |-> <<>>, ok |-> TRUE]

\* one file-system call (read_dir, open), as the log records it
PathCall(op, dir, fname) == [op |-> op, cat |-> dir, code |-> 0, path |-> fname, ok |-> TRUE]

\* the per-code ioctl of each category
BitOps == {"UI_SET_KEYBIT", "UI_SET_MSCBIT", "UI_SET_LEDBIT", "UI_SET_RELBIT", "UI_SET_SWBIT"}

\* the category whose code bits an ioctl declares
CatOfOp(op) ==
    CASE op = "UI_SET_KEYBIT" -> "KEY"
      [] op = "UI_SET_MSCBIT" -> "MSC"
      [] op = "UI_SET_LEDBIT" -> "LED"
      [] op = "UI_SET_RELBIT" -> "REL"
      [] op = "UI_SET_SWBIT" -> "SW"
      [] OTHER -> ""

\* a bug: the per-code bits are declared before the event-type bit
DeclCallsBitsFirst(cat, bitop, codes) ==
    [i \in 1..Cardinality(codes) |-> Call(bitop, "", Iter(codes)[i])]
        \o <<Call("UI_SET_EVBIT", cat, 0)>>

\* a bug: the loop over the codes skips the first code of the iterator
DeclCallsSkipFirst(cat, bitop, codes) ==
    <<Call("UI_SET_EVBIT", cat, 0)>>
        \o [i \in 1..(Cardinality(codes) - 1) |-> Call(bitop, "", Iter(codes)[i + 1])]

\* the ioctls of one with_<category> call, in the order the code issues them:
\* the event-type bit, then one per-code bit for every code of the iterator
DeclCalls(cat, bitop, codes) ==
    <<Call("UI_SET_EVBIT", cat, 0)>>
        \o [i \in 1..Cardinality(codes) |-> Call(bitop, "", Iter(codes)[i])]

\* a bug: the error of an ioctl is dropped and the remaining calls are issued
IssuedAll(calls, f) ==
    [i \in 1..Len(calls) |-> [calls[i] EXCEPT !.ok = (i # f)]]

\* the calls issued when call number f fails (f = 0: none fails): the `?` after
\* each ioctl returns at the first failure, so nothing after call f is issued
Issued(calls, f) ==
    IF f = 0 THEN calls
    ELSE [i \in 1..f |-> [calls[i] EXCEPT !.ok = (i < f)]]

\* VirtualDeviceBuilder::new
Open ==
    /\ stage = "none"
    /\ \E ok \in BOOLEAN :
        /\ stage' = IF ok THEN "builder" ELSE "closed"
        /\ file' = IF ok THEN 1 ELSE 0
        /\ kstate' = IF ok THEN "new" ELSE "gone"
        /\ log' = <<[PathCall("open", UINPUT_PATH, <<>>) EXCEPT !.ok = ok]>>
        /\ IF ok THEN err' = <<>> ELSE \E e \in Errnos : err' = <<OsError(e)>>
    /\ ktopo' = <<>>
    /\ name' = <<>>
    /\ id' = <<>>
    /\ decls' = 0
    /\ builds' = 0
    /\ asked' = [c \in Categories |-> {}]
    /\ kevbit' = {}
    /\ kbits' = [c \in Categories |-> {}]
    /\ ksetup' = <<>>
    /\ file_event' = <<>>
    /\ UNCHANGED deviceVars

\* a bug: the builder stays usable after build returned the device
BuilderAliveAfterBuild == stage \in {"builder", "device"}

\* the builder methods take self by value: they run only on a builder that no
\* earlier with_<category> error or build has consumed
BuilderAlive == stage = "builder"

\* VirtualDeviceBuilder::name
SetName ==
    /\ BuilderAlive
    /\ \E L \in NameLens : name' = NameOfLen(L)
    /\ UNCHANGED <<stage, file, id, decls, asked, builds, log, kstate, kevbit,
                   kbits, ksetup, file_event, err, ktopo>>
    /\ UNCHANGED deviceVars

\* VirtualDeviceBuilder::input_id
SetInputId ==
    /\ BuilderAlive
    /\ \E i \in InputIds : id' = <<i>>
    /\ UNCHANGED <<stage, file, name, decls, asked, builds, log, kstate, kevbit,
                   kbits, ksetup, file_event, err, ktopo>>
    /\ UNCHANGED deviceVars

\* a bug: a failed declaration returns the error and leaves the handle open
DeclareKeepsHandle(cat, calls, codes, f) ==
    /\ BuilderAlive
    /\ decls < MaxDecls
    /\ f \in 0..Len(calls)
    /\ log' = log \o Issued(calls, f)
    /\ decls' = decls + 1
    /\ IF f = 0
       THEN /\ asked' = [asked EXCEPT ![cat] = @ \cup codes]
            /\ UNCHANGED <<stage, err>>
       ELSE /\ stage' = "closed"
            /\ \E e \in Errnos : err' = <<OsError(e)>>
            /\ UNCHANGED asked
    /\ UNCHANGED <<file, kstate, kevbit, kbits, name, id, builds, ksetup, file_event, ktopo>>
    /\ UNCHANGED deviceVars

\* the body shared by the five with_<category> methods: issue the calls up to
\* the first failure; on failure the builder (self) is dropped with the error
\* and its File closes, which makes the kernel discard the uinput device
Declare(cat, calls, codes, f) ==
    /\ BuilderAlive
    /\ decls < MaxDecls
    /\ f \in 0..Len(calls)
    /\ LET done == Issued(calls, f)
       IN  /\ log' = log \o done
           /\ kevbit' = kevbit \cup {done[i].cat : i \in {j \in 1..Len(done) :
                                        done[j].op = "UI_SET_EVBIT" /\ done[j].ok}}
           /\ kbits' = [c \in Categories |-> kbits[c] \cup
                            {done[i].code : i \in {j \in 1..Len(done) :
                                        CatOfOp(done[j].op) = c /\ done[j].ok}}]
    /\ decls' = decls + 1
    /\ IF f = 0
       THEN /\ asked' = [asked EXCEPT ![cat] = @ \cup codes]
            /\ UNCHANGED <<stage, file, kstate, err>>
       ELSE /\ stage' = "closed"
            /\ file' = 0
            /\ kstate' = "gone"
            /\ \E e \in Errnos : err' = <<OsError(e)>>
            /\ UNCHANGED asked
    /\ UNCHANGED <<name, id, builds, ksetup, file_event, ktopo>>
    /\ UNCHANGED deviceVars

\* VirtualDeviceBuilder::with_keys
with_keys ==
    \E codes \in SUBSET CodesOf("KEY") : \E f \in 0..(Cardinality(codes) + 1) :
        Declare("KEY", DeclCalls("KEY", "UI_SET_KEYBIT", codes), codes, f)

\* VirtualDeviceBuilder::with_miscs
with_miscs ==
    \E codes \in SUBSET CodesOf("MSC") : \E f \in 0..(Cardinality(codes) + 1) :
        Declare("MSC", DeclCalls("MSC", "UI_SET_MSCBIT", codes), codes, f)

\* VirtualDeviceBuilder::with_leds
with_leds ==
    \E codes \in SUBSET CodesOf("LED") : \E f \in 0..(Cardinality(codes) + 1) :
        Declare("LED", DeclCalls("LED", "UI_SET_LEDBIT", codes), codes, f)

\* VirtualDeviceBuilder::with_relative_axes
with_relative_axes ==
    \E codes \in SUBSET CodesOf("REL") : \E f \in 0..(Cardinality(codes) + 1) :
        Declare("REL", DeclCalls("REL", "UI_SET_RELBIT", codes), codes, f)

\* VirtualDeviceBuilder::with_switches
with_switches ==
    \E codes \in SUBSET CodesOf("SW") : \E f \in 0..(Cardinality(codes) + 1) :
        Declare("SW", DeclCalls("SW", "UI_SET_SWBIT", codes), codes, f)

----------------------------------------------------------------------------
(* Finalization: VirtualDeviceBuilder::build and VirtualDevice::new.       *)

\* a bug: the assertion accepts a name that leaves no room for the terminator
NameFitsOffByOne(n) == Len(n) + 1 <= UINPUT_MAX_NAME_SIZE

\* the assertion of build: the name and its terminator fit the name buffer
NameFits(n) == Len(n) + 1 < UINPUT_MAX_NAME_SIZE

\* a bug: the name buffer is not zeroed before the name is copied into it
UsetupDirtyName(n, i) ==
    [id |-> IF i = <<>> THEN DEFAULT_ID ELSE i[1],
     name |-> [k \in 1..UINPUT_MAX_NAME_SIZE |-> IF k <= Len(n) THEN n[k] ELSE 32],
     ff_effects_max |-> 0]

\* the uinput_setup record build populates
Usetup(n, i) ==
    [id |-> IF i = <<>> THEN DEFAULT_ID ELSE i[1],
     name |-> [k \in 1..UINPUT_MAX_NAME_SIZE |-> IF k <= Len(n) THEN n[k] ELSE 0],
     ff_effects_max |-> 0]

\* a byte string in a zeroed buffer of SYSNAME_BUF bytes
Padded(str) == [k \in 1..SYSNAME_BUF |-> IF k <= Len(str) THEN str[k] ELSE 0]

\* "input7", "input8", "event3", "event4", "event5", "uevent" and "event" as bytes
StrInput7 == <<105, 110, 112, 117, 116, 55>>
StrInput8 == <<105, 110, 112, 117, 116, 56>>
StrEvent3 == <<101, 118, 101, 110, 116, 51>>
StrEvent4 == <<101, 118, 101, 110, 116, 52>>
StrEvent5 == <<101, 118, 101, 110, 116, 53>>
StrUevent == <<117, 101, 118, 101, 110, 116>>
StrEvent == <<101, 118, 101, 110, 116>>

\* what ui_get_sysname leaves in the buffer: a terminated name, a name that
\* fills the buffer, bytes that are no UTF-8 text
SysnameBufs == {Padded(StrInput7), [k \in 1..SYSNAME_BUF |-> 105], Padded(<<255>>)}

\* the short name the kernel assigned to the device, as ui_get_sysname put it
\* in the buffer: the bytes up to the terminator, all of them if none fits
SysnameOf(buf) ==
    LET zs == {i \in 1..Len(buf) : buf[i] = 0}
    IN  IF zs = {} THEN buf
        ELSE SubSeq(buf, 1, (CHOOSE i \in zs : \A j \in zs : i <= j) - 1)

\* what read_dir yields: entries that are Ok(name) or Err
DirEntry(fname) == [ok |-> TRUE, fname |-> fname]
BadEntry == [ok |-> FALSE, fname |-> <<>>]
Listings == {<<>>,
             <<DirEntry(StrUevent)>>,
             <<DirEntry(StrEvent3)>>,
             <<DirEntry(StrUevent), BadEntry, DirEntry(StrEvent3)>>,
             <<DirEntry(StrEvent4), DirEntry(StrEvent3)>>}

\* another virtual input device alive in the system while this one is built:
\* its topology directory and the event entry in it
OtherDevice == [name |-> StrInput8, listing |-> <<DirEntry(StrUevent), DirEntry(StrEvent5)>>]

\* the outcomes of the kernel calls of one VirtualDevice::new: whether the two
\* ioctls succeed, the sysname buffer (<<>>: the ioctl fails), the listing of
\* the topology directory of the device (<<>>: it cannot be listed), whether
\* the open succeeds, the errno of the call that fails
Envs == [setupOk : BOOLEAN, createOk : BOOLEAN,
         sysname : {<<>>} \cup {<<b>> : b \in SysnameBufs},
         listing : {<<>>} \cup {<<l>> : l \in Listings},
         openOk : BOOLEAN,
         errno : Errnos]

\* std::fs::read_dir("/sys/devices/virtual/input/<input_name>"): the listing of
\* the directory of that name (<<listing>>), or the errno it fails with; a
\* name that is no device's has no directory
ReadDir(env, input_name) ==
    IF input_name = SysnameOf(env.sysname[1])
    THEN [listing |-> env.listing, errno |-> env.errno]
    ELSE IF input_name = OtherDevice.name
    THEN [listing |-> <<OtherDevice.listing>>, errno |-> env.errno]
    ELSE [listing |-> <<>>, errno |-> "ENOENT"]

\* open_event_file: the index of the first zero byte among all bytes but the
\* last, or the index of the last byte (0-based, as in the code)
FirstNul(buf) ==
    LET zs == {i \in 0..(Len(buf) - 2) : buf[i + 1] = 0}
    IN  IF zs = {} THEN Len(buf) - 1
        ELSE CHOOSE i \in zs : \A j \in zs : i <= j

\* open_event_file: &name[0..first_nul]
DecodeSysname(buf) == SubSeq(buf, 1, FirstNul(buf))

\* std::str::from_utf8 on the bytes drawn here: ASCII is text, a byte 255 is not
Utf8Valid(str) == \A k \in 1..Len(str) : str[k] < 128

\* to_string_lossy: bytes that are no text become U+FFFD
Lossy(str) == [k \in 1..Len(str) |-> IF str[k] < 128 THEN str[k] ELSE 65533]

\* a bug: the loop keeps the last entry whose name starts with "event"
RECURSIVE FindEventLast(_)
FindEventLast(listing) ==
    IF listing = <<>> THEN <<>>
    ELSE LET rest == FindEventLast(Tail(listing))
         IN  IF rest # <<>> THEN rest
             ELSE IF Head(listing).ok /\ StartsWith(Head(listing).fname, StrEvent)
                  THEN <<Head(listing).fname>>
                  ELSE <<>>

\* the loop of open_event_file: Err entries are ignored; the first entry whose
\* name starts with "event" is taken (<<name>>), None ends the loop (<<>>)
RECURSIVE FindEvent(_)
FindEvent(listing) ==
    IF listing = <<>> THEN <<>>
    ELSE IF Head(listing).ok /\ StartsWith(Head(listing).fname, StrEvent)
         THEN <<Head(listing).fname>>
         ELSE FindEvent(Tail(listing))

\* the loop of open_event_file: the number of Err entries it went past before
\* it returned
RECURSIVE Skipped(_)
Skipped(listing) ==
    IF listing = <<>> THEN 0
    ELSE IF Head(listing).ok /\ StartsWith(Head(listing).fname, StrEvent)
         THEN 0
         ELSE (IF Head(listing).ok THEN 0 ELSE 1) + Skipped(Tail(listing))

\* a bug: with no "event" entry in the listing, the directory is listed again
NoEventEntryRetry(sysCall, dirCall) ==
    [calls |-> <<sysCall, dirCall, dirCall>>, res |-> <<>>,
     err |-> <<NotFoundError>>, topo |-> <<>>]

\* open_event_file, the None arm of the loop: the listing is exhausted, the
\* function returns the NotFound error it makes
NoEventEntry(sysCall, dirCall) ==
    [calls |-> <<sysCall, dirCall>>, res |-> <<>>, err |-> <<NotFoundError>>, topo |-> <<>>]

\* open_event_file: the calls it issues, the event handle it returns (<<>>:
\* an error), the error, the topology directory it found the entry in
OpenEventFile(env) ==
    IF env.sysname = <<>>
    THEN [calls |-> <<[Call("UI_GET_SYSNAME", "", 0) EXCEPT !.ok = FALSE]>>, res |-> <<>>,
          err |-> <<OsError(env.errno)>>, topo |-> <<>>]
    ELSE LET input_name == DecodeSysname(env.sysname[1])
             sysCall == [Call("UI_GET_SYSNAME", "", 0) EXCEPT !.path = env.sysname[1]]
             dirCall == PathCall("read_dir", "/sys/devices/virtual/input", input_name)
         IN  IF ~Utf8Valid(input_name)
             THEN [calls |-> <<sysCall>>, res |-> <<>>, err |-> <<NotFoundError>>,
                   topo |-> <<>>]
             ELSE LET rd == ReadDir(env, input_name)
             IN  IF rd.listing = <<>>
             THEN [calls |-> <<sysCall, [dirCall EXCEPT !.ok = FALSE]>>, res |-> <<>>,
                   err |-> <<OsError(rd.errno)>>, topo |-> <<>>]
             ELSE LET found == FindEvent(rd.listing[1])
                      dirDone == [dirCall EXCEPT !.code = Skipped(rd.listing[1])]
                  IN  IF found = <<>>
                      THEN NoEventEntry(sysCall, dirDone)
                      ELSE LET openCall == PathCall("open", "/dev/input", Lossy(found[1]))
                           IN  IF env.openOk
                               THEN [calls |-> <<sysCall, dirDone, openCall>>,
                                     res |-> <<Lossy(found[1])>>, err |-> <<>>,
                                     topo |-> <<[name |-> SysnameOf(env.sysname[1]),
                                                 listing |-> env.listing]>>]
                               ELSE [calls |-> <<sysCall, dirDone,
                                                 [openCall EXCEPT !.ok = FALSE]>>,
                                     res |-> <<>>, err |-> <<OsError(env.errno)>>,
                                     topo |-> <<>>]

\* a bug: the result of ui_dev_setup is not looked at
NewResultUnchecked(env) ==
    LET setup == [Call("UI_DEV_SETUP", "", 0) EXCEPT !.ok = env.setupOk]
    IN  IF ~env.createOk
        THEN [calls |-> <<setup, [Call("UI_DEV_CREATE", "", 0) EXCEPT !.ok = FALSE]>>,
              kstate |-> "setup", res |-> <<>>, err |-> <<OsError(env.errno)>>,
              topo |-> <<>>]
        ELSE LET ev == OpenEventFile(env)
             IN  [calls |-> <<setup, Call("UI_DEV_CREATE", "", 0)>> \o ev.calls,
                  kstate |-> "created", res |-> ev.res, err |-> ev.err, topo |-> ev.topo]

\* VirtualDevice::new: setup, create, then open_event_file, each `?` returning
\* at the first failure: the calls issued, the uinput state reached, the
\* event handle (<<>>: new returns an error), the error
NewResult(env) ==
    IF ~env.setupOk
    THEN [calls |-> <<[Call("UI_DEV_SETUP", "", 0) EXCEPT !.ok = FALSE]>>,
          kstate |-> "new", res |-> <<>>, err |-> <<OsError(env.errno)>>, topo |-> <<>>]
    ELSE IF ~env.createOk
    THEN [calls |-> <<Call("UI_DEV_SETUP", "", 0),
                      [Call("UI_DEV_CREATE", "", 0) EXCEPT !.ok = FALSE]>>,
          kstate |-> "setup", res |-> <<>>, err |-> <<OsError(env.errno)>>, topo |-> <<>>]
    ELSE LET ev == OpenEventFile(env)
         IN  [calls |-> <<Call("UI_DEV_SETUP", "", 0), Call("UI_DEV_CREATE", "", 0)>>
                            \o ev.calls,
              kstate |-> "created", res |-> ev.res, err |-> ev.err, topo |-> ev.topo]

\* what VirtualDevice::new can do, over the outcomes of its kernel calls
NewResults == {NewResult(env) : env \in Envs}

\* a bug: on an error the control handle is kept open, so the kernel keeps
\* what was set up through it
NewLeavesHandle(usetup, r) ==
    /\ r \in NewResults
    /\ log' = log \o r.calls
    /\ ksetup' = IF r.kstate = "new" THEN ksetup ELSE <<usetup>>
    /\ err' = r.err
    /\ ktopo' = r.topo
    /\ stage' = IF r.res = <<>> THEN "closed" ELSE "device"
    /\ file' = file
    /\ kstate' = r.kstate
    /\ file_event' = r.res

\* VirtualDevice::new as a step: on an error the File it was given is dropped,
\* which closes the control handle and discards the kernel's device
New(usetup, r) ==
    /\ r \in NewResults
    /\ log' = log \o r.calls
    /\ ksetup' = IF r.kstate = "new" THEN ksetup ELSE <<usetup>>
    /\ err' = r.err
    /\ ktopo' = r.topo
    /\ IF r.res = <<>>
       THEN /\ stage' = "closed"
            /\ file' = 0
            /\ kstate' = "gone"
            /\ file_event' = <<>>
       ELSE /\ stage' = "device"
            /\ file' = file
            /\ kstate' = r.kstate
            /\ file_event' = r.res

\* a bug: the name is checked only after VirtualDevice::new has run
buildAssertLast ==
    /\ BuilderAlive
    /\ builds' = builds + 1
    /\ \E r \in NewResults :
        /\ log' = log \o r.calls
        /\ ksetup' = IF r.kstate = "new" THEN ksetup ELSE <<Usetup(name, id)>>
        /\ IF ~NameFits(name)
           THEN /\ stage' = "panicked"
                /\ file' = 0
                /\ kstate' = "gone"
                /\ file_event' = <<>>
                /\ err' = <<>>
                /\ ktopo' = <<>>
           ELSE /\ stage' = IF r.res = <<>> THEN "closed" ELSE "device"
                /\ file' = IF r.res = <<>> THEN 0 ELSE file
                /\ kstate' = IF r.res = <<>> THEN "gone" ELSE r.kstate
                /\ file_event' = r.res
                /\ err' = r.err
                /\ ktopo' = r.topo
    /\ UNCHANGED <<name, id, decls, asked, kevbit, kbits>>
    /\ UNCHANGED deviceVars

\* VirtualDeviceBuilder::build: the assertion on the name panics (unwinding
\* drops the builder); otherwise the setup record goes to VirtualDevice::new
build ==
    /\ BuilderAlive
    /\ builds' = builds + 1
    /\ IF ~NameFits(name)
       THEN /\ stage' = "panicked"
            /\ file' = 0
            /\ kstate' = "gone"
            /\ UNCHANGED <<log, ksetup, file_event, err, ktopo>>
       ELSE \E r \in NewResults : New(Usetup(name, id), r)
    /\ UNCHANGED <<name, id, decls, asked, kevbit, kbits>>
    /\ UNCHANGED deviceVars

\* the builder or the device goes out of scope: its Files are closed
Drop ==
    /\ stage \in {"builder", "device"}
    /\ borrow = 0
    /\ stage' = "closed"
    /\ file' = 0
    /\ file_event' = <<>>
    /\ kstate' = "gone"
    /\ ktopo' = <<>>
    /\ UNCHANGED <<name, id, decls, asked, builds, log, kevbit, kbits, ksetup, err>>
    /\ UNCHANGED deviceVars

----------------------------------------------------------------------------
(* The device: VirtualDevice::emit and the key-state query.                *)

\* InputEvent::new(EventType::SYNCHRONIZATION, 0, 0)
SynEvent == [type |-> "SYN", code |-> 0, value |-> 0]

\* the event records a caller passes: key presses (1) and releases (0)
Events == [type : {"KEY"}, code : KeyCodes, value : {0, 1}]

\* the slices a caller passes to emit
Batches == UNION {[1..n -> Events] : n \in 0..MaxLen}

\* the categories whose state the kernel holds per code and the code queries
StateCats == {"KEY", "LED", "SW"}

\* the kernel's handling of one record written to the control handle: a
\* record of a declared code whose value differs from the held state flips it
Inject(kv, ev) ==
    IF /\ ev.type \in StateCats
       /\ ev.type \in kevbit
       /\ ev.code \in kbits[ev.type]
       /\ (ev.code \in kv[ev.type]) # (ev.value # 0)
    THEN [kv EXCEPT ![ev.type] = IF ev.value # 0 THEN @ \cup {ev.code} ELSE @ \ {ev.code}]
    ELSE kv

RECURSIVE InjectAll(_, _)
InjectAll(kv, recs) ==
    IF recs = <<>> THEN kv ELSE InjectAll(Inject(kv, Head(recs)), Tail(recs))

\* the outcomes of write_all on a slice of n records: all n written (ok), or
\* an error after fewer than n; an empty slice takes no write and cannot fail
WriteOutcomes(n) == {[n |-> n, ok |-> TRUE]} \cup {[n |-> k, ok |-> FALSE] : k \in 0..(n - 1)}

\* the value of the last key record for `code` among recs, or prev
LastKeyValue(recs, code, prev) ==
    LET at == {k \in 1..Len(recs) : recs[k].type = "KEY" /\ recs[k].code = code}
    IN  IF at = {} THEN prev
        ELSE recs[CHOOSE k \in at : \A j \in at : j <= k].value

\* no emit call in progress or just returned
NoCall == [t |-> 0, messages |-> <<>>, wrote |-> <<>>, ret |-> "none"]

\* a bug: emit takes &self, so a thread enters whatever the others do
MayBorrowShared(t) == TRUE

\* emit takes &mut self: a thread enters only while no other reference to the
\* device is in use
MayBorrowMut(t) == borrow = 0

\* a bug: the result of the first write is not looked at
EmitRecordsUnchecked(t) ==
    /\ stage = "device"
    /\ pc[t] = "idle"
    /\ MayBorrowMut(t)
    /\ \E messages \in Batches : \E w \in WriteOutcomes(Len(messages)) :
        LET done == SubSeq(messages, 1, w.n)
        IN  /\ kval' = InjectAll(kval, done)
            /\ lastEv' = [c \in KeyCodes |-> LastKeyValue(messages, c, lastEv[c])]
            /\ call' = [t |-> t, messages |-> messages, wrote |-> done, ret |-> "running"]
            /\ allOk' = (allOk /\ w.ok)
    /\ pc' = [pc EXCEPT ![t] = "syn"]
    /\ borrow' = t
    /\ qres' = <<>>
    /\ prevq' = <<>>
    /\ qcall' = <<>>
    /\ UNCHANGED builderVars

\* emit, first statement: self.write_raw(messages)?
EmitRecords(t) ==
    /\ stage = "device"
    /\ pc[t] = "idle"
    /\ MayBorrowMut(t)
    /\ \E messages \in Batches : \E w \in WriteOutcomes(Len(messages)) :
        LET done == SubSeq(messages, 1, w.n)
        IN  /\ kval' = InjectAll(kval, done)
            /\ lastEv' = [c \in KeyCodes |-> LastKeyValue(messages, c, lastEv[c])]
            /\ call' = [t |-> t, messages |-> messages, wrote |-> done,
                        ret |-> IF w.ok THEN "running" ELSE "Err"]
            /\ pc' = [pc EXCEPT ![t] = IF w.ok THEN "syn" ELSE "idle"]
            /\ borrow' = IF w.ok THEN t ELSE borrow
            /\ allOk' = (allOk /\ w.ok)
    /\ qres' = <<>>
    /\ prevq' = <<>>
    /\ qcall' = <<>>
    /\ UNCHANGED builderVars

\* a bug: no terminator is put in the slice of the second write
SynSliceEmpty == <<>>

\* emit: the slice &[syn] of the second write
SynSlice == <<SynEvent>>

\* emit, second statement: self.write_raw(&[syn]), whose result emit returns
EmitSyn(t) ==
    /\ stage = "device"
    /\ pc[t] = "syn"
    /\ \E w \in WriteOutcomes(Len(SynSlice)) :
        LET done == SubSeq(SynSlice, 1, w.n)
        IN  /\ kval' = InjectAll(kval, done)
            /\ call' = IF call.t = t
                       THEN [call EXCEPT !.wrote = @ \o done,
                                         !.ret = IF w.ok THEN "Ok" ELSE "Err"]
                       ELSE call
            /\ allOk' = (allOk /\ w.ok)
    /\ pc' = [pc EXCEPT ![t] = "idle"]
    /\ borrow' = IF borrow = t THEN 0 ELSE borrow
    /\ UNCHANGED <<lastEv, qres, prevq, qcall>>
    /\ UNCHANGED builderVars

\* the field of VirtualDevice whose descriptor the state queries pass to the
\* ioctl: self.file_event
QueryFd == "file_event"

\* the ioctl of a state query as qcall records it: the request, the handle
\* it is issued on, what it returned
QueryCall(op, ok, val) == [op |-> op, fd |-> QueryFd, ok |-> ok, val |-> val]

\* a bug: the kernel's bitmap is or-ed into what the buffer held
UpdateKeyStateOr(buf) == buf \cup kval["KEY"]

\* update_key_state: eviocgkey on file_event fills the whole buffer with the
\* kernel's key bitmap, whatever the buffer held
UpdateKeyState(buf) == kval["KEY"]

\* update_switch_state: eviocgsw fills the buffer with the switch bitmap
UpdateSwitchState(buf) == kval["SW"]

\* update_led_state: eviocgled fills the buffer with the LED bitmap
UpdateLedState(buf) == kval["LED"]

\* a bug: reading the key state resets it
QueryKeysClearing(buf) ==
    /\ stage = "device"
    /\ borrow = 0
    /\ file_event # <<>>
    /\ \E ok \in BOOLEAN :
        /\ qres' = <<[ok |-> ok, val |-> IF ok THEN UpdateKeyState(buf) ELSE {}]>>
        /\ qcall' = <<QueryCall("EVIOCGKEY", ok, IF ok THEN UpdateKeyState(buf) ELSE {})>>
    /\ prevq' = qres
    /\ call' = NoCall
    /\ kval' = [kval EXCEPT !["KEY"] = {}]
    /\ UNCHANGED <<pc, borrow, lastEv, allOk>>
    /\ UNCHANGED builderVars

\* the step of a key-state query (&self: no emit is in progress) into buf
QueryKeys(buf) ==
    /\ stage = "device"
    /\ borrow = 0
    /\ file_event # <<>>
    /\ \E ok \in BOOLEAN :
        /\ qres' = <<[ok |-> ok, val |-> IF ok THEN UpdateKeyState(buf) ELSE {}]>>
        /\ qcall' = <<QueryCall("EVIOCGKEY", ok, IF ok THEN UpdateKeyState(buf) ELSE {})>>
    /\ prevq' = qres
    /\ call' = NoCall
    /\ UNCHANGED <<pc, borrow, kval, lastEv, allOk>>
    /\ UNCHANGED builderVars

\* a bug: reading the LED state switches the LEDs off
QueryLedsClearing(buf) ==
    /\ stage = "device"
    /\ borrow = 0
    /\ file_event # <<>>
    /\ \E ok \in BOOLEAN :
        qcall' = <<QueryCall("EVIOCGLED", ok, IF ok THEN UpdateLedState(buf) ELSE {})>>
    /\ call' = NoCall
    /\ kval' = [kval EXCEPT !["LED"] = {}]
    /\ UNCHANGED <<pc, borrow, lastEv, allOk, qres, prevq>>
    /\ UNCHANGED builderVars

\* the step of an LED-state query into buf
QueryLeds(buf) ==
    /\ stage = "device"
    /\ borrow = 0
    /\ file_event # <<>>
    /\ \E ok \in BOOLEAN :
        qcall' = <<QueryCall("EVIOCGLED", ok, IF ok THEN UpdateLedState(buf) ELSE {})>>
    /\ call' = NoCall
    /\ UNCHANGED <<pc, borrow, kval, lastEv, allOk, qres, prevq>>
    /\ UNCHANGED builderVars

\* the step of a switch-state query into buf
QuerySwitches(buf) ==
    /\ stage = "device"
    /\ borrow = 0
    /\ file_event # <<>>
    /\ \E ok \in BOOLEAN :
        qcall' = <<QueryCall("EVIOCGSW", ok, IF ok THEN UpdateSwitchState(buf) ELSE {})>>
    /\ call' = NoCall
    /\ UNCHANGED <<pc, borrow, kval, lastEv, allOk, qres, prevq>>
    /\ UNCHANGED builderVars

\* VirtualDevice::get_key_state: AttributeSet::new(), then update_key_state
get_key_state == QueryKeys({})

\* VirtualDevice::update_key_state with the caller's buffer
update_key_state == \E buf \in SUBSET KeyCodes : QueryKeys(buf)

\* VirtualDevice::get_switch_state: AttributeSet::new(), then update_switch_state
get_switch_state == QuerySwitches({})

\* VirtualDevice::update_switch_state with the caller's buffer
update_switch_state == \E buf \in SUBSET CodesOf("SW") : QuerySwitches(buf)

\* VirtualDevice::get_led_state: AttributeSet::new(), then update_led_state
get_led_state == QueryLeds({})

\* VirtualDevice::update_led_state with the caller's buffer
update_led_state == \E buf \in SUBSET CodesOf("LED") : QueryLeds(buf)

----------------------------------------------------------------------------
(* Specifications.                                                         *)

InitDeviceVars ==
    /\ pc = [t \in Threads |-> "idle"]
    /\ borrow = 0
    /\ call = NoCall
    /\ kval = [c \in StateCats |-> {}]
    /\ lastEv = [c \in KeyCodes |-> -1]
    /\ allOk = TRUE
    /\ qres = <<>>
    /\ prevq = <<>>
    /\ qcall = <<>>

\* the program before it opens /dev/uinput
Init ==
    /\ stage = "none"
    /\ file = 0
    /\ name = <<>>
    /\ id = <<>>
    /\ decls = 0
    /\ asked = [c \in Categories |-> {}]
    /\ builds = 0
    /\ log = <<>>
    /\ kstate = "gone"
    /\ kevbit = {}
    /\ kbits = [c \in Categories |-> {}]
    /\ ksetup = <<>>
    /\ file_event = <<>>
    /\ err = <<>>
    /\ ktopo = <<>>
    /\ InitDeviceVars

\* construction: the builder up to the device or the error
Next ==
    \/ Open
    \/ SetName
    \/ SetInputId
    \/ with_keys
    \/ with_miscs
    \/ with_leds
    \/ with_relative_axes
    \/ with_switches
    \/ build
    \/ Drop

Spec == Init /\ [][Next]_vars

\* the outcomes of the kernel calls of a build that succeeds
OkEnv == [setupOk |-> TRUE, createOk |-> TRUE, sysname |-> <<Padded(StrInput7)>>,
          listing |-> <<(<<DirEntry(StrEvent3)>>)>>, openOk |-> TRUE, errno |-> "ENOENT"]

\* the device that VirtualDeviceBuilder::new()?.name(..).with_keys(C)?.build()?
\* returns, for a key set C that leaves a key undeclared and for the full one
InitDevice ==
    /\ stage = "device"
    /\ file = 1
    /\ name = NameOfLen(13)
    /\ id = <<>>
    /\ decls = 1
    /\ builds = 1
    /\ \E C \in {{KEY_A}, KeyCodes} :
        /\ asked = [c \in Categories |-> IF c = "KEY" THEN C ELSE {}]
        /\ kbits = [c \in Categories |-> IF c = "KEY" THEN C ELSE {}]
        /\ log = <<PathCall("open", UINPUT_PATH, <<>>)>> \o DeclCalls("KEY", "UI_SET_KEYBIT", C)
                    \o NewResult(OkEnv).calls
    /\ kstate = "created"
    /\ kevbit = {"KEY"}
    /\ ksetup = <<Usetup(NameOfLen(13), <<>>)>>
    /\ file_event = NewResult(OkEnv).res
    /\ err = <<>>
    /\ ktopo = NewResult(OkEnv).topo
    /\ InitDeviceVars

\* use of the device by the threads that hold it
NextDevice ==
    \/ \E t \in Threads : EmitRecords(t)
    \/ \E t \in Threads : EmitSyn(t)
    \/ get_key_state
    \/ update_key_state

SpecDevice == InitDevice /\ [][NextDevice]_vars

\* the device that new()?.name(..).with_keys(K)?.with_leds(L)?.build()? returns
\* for the key set K and the LED set L of the example, after emit calls that
\* left some of the keys pressed and some of the LEDs on
InitQuery ==
    /\ stage = "device"
    /\ file = 1
    /\ name = NameOfLen(13)
    /\ id = <<>>
    /\ decls = 2
    /\ builds = 1
    /\ asked = [c \in Categories |-> IF c \in {"KEY", "LED"} THEN CodesOf(c) ELSE {}]
    /\ kbits = asked
    /\ log = <<PathCall("open", UINPUT_PATH, <<>>)>>
                \o DeclCalls("KEY", "UI_SET_KEYBIT", CodesOf("KEY"))
                \o DeclCalls("LED", "UI_SET_LEDBIT", CodesOf("LED"))
                \o NewResult(OkEnv).calls
    /\ kstate = "created"
    /\ kevbit = {"KEY", "LED"}
    /\ ksetup = <<Usetup(NameOfLen(13), <<>>)>>
    /\ file_event = NewResult(OkEnv).res
    /\ err = <<>>
    /\ ktopo = NewResult(OkEnv).topo
    /\ pc = [t \in Threads |-> "idle"]
    /\ borrow = 0
    /\ call = NoCall
    /\ kval \in [StateCats -> SUBSET (KeyCodes \cup CodesOf("LED"))]
    /\ \A c \in StateCats : kval[c] \subseteq kbits[c]
    /\ lastEv = [c \in KeyCodes |-> IF c \in kval["KEY"] THEN 1 ELSE 0]
    /\ allOk = TRUE
    /\ qres = <<>>
    /\ prevq = <<>>
    /\ qcall = <<>>

\* the state queries, by the threads that share the device
NextQuery ==
    \/ get_key_state
    \/ update_key_state
    \/ get_switch_state
    \/ update_switch_state
    \/ get_led_state
    \/ update_led_state

SpecQuery == InitQuery /\ [][NextQuery]_vars

----------------------------------------------------------------------------
(* Properties of emit and of the key-state query (SpecDevice).             *)

\* C1, as stated: every emit call that has returned, whatever it returned,
\* wrote its N records and then exactly one synchronization record, last.
C1_EveryCallEndsWithSyn ==
    call.ret \in {"Ok", "Err"} => call.wrote = call.messages \o <<SynEvent>>

\* C1, amended: an emit call that returns Ok wrote its N records (N >= 0)
\* verbatim and in order and then exactly one synchronization record, last;
\* any call, also one that fails, wrote a prefix of that sequence, so never
\* more than one synchronization record and never one before a caller record.
C1_OkCallEndsWithOneSyn ==
    LET full == call.messages \o <<SynEvent>>
        syns == {k \in 1..Len(call.wrote) : call.wrote[k] = SynEvent}
    IN  /\ call.ret = "Ok" => call.wrote = full
        /\ Len(call.wrote) <= Len(full)
        /\ call.wrote = SubSeq(full, 1, Len(call.wrote))
        /\ Cardinality(syns) <= 1
        /\ \A k \in syns : k = Len(call.wrote)

\* an emit call of MaxLen records has returned Ok
C1_Witness == call.ret = "Ok" /\ Len(call.messages) = MaxLen

\* C2: after successful emit calls only, a key-state query returns exactly the
\* declared keys whose key event passed to emit last was a press.
C2_KeyStateIsLastPress ==
    (qres # <<>> /\ qres[1].ok /\ allOk) =>
        qres[1].val = {k \in asked["KEY"] : lastEv[k] = 1}

\* both keys are declared, KEY_A was released last and KEY_CAPSLOCK pressed
\* last, and a query returned
C2_Witness ==
    /\ qres # <<>> /\ qres[1].ok /\ allOk
    /\ asked["KEY"] = KeyCodes
    /\ lastEv[KEY_A] = 0 /\ lastEv[KEY_CAPSLOCK] = 1
    /\ qres[1].val = {KEY_CAPSLOCK}

\* C8: two key-state queries in succession, with no emit between them, that
\* both return a key set return the same key set.
C8_QueryIdempotent ==
    (qres # <<>> /\ prevq # <<>> /\ qres[1].ok /\ prevq[1].ok) =>
        qres[1].val = prevq[1].val

\* two queries in succession returned a key set with a key in it
C8_Witness ==
    /\ qres # <<>> /\ prevq # <<>> /\ qres[1].ok /\ prevq[1].ok
    /\ qres[1].val # {}

\* C10, as stated: the two writes of emit are not atomic with respect to the
\* emit calls of other threads, that is, while a call is between its two
\* writes another thread can start an emit call on the same device and write.
C10_OtherThreadCanWriteBetween ==
    \A t \in Threads :
        pc[t] = "syn" => \E u \in Threads \ {t} : ENABLED EmitRecords(u)

\* C10, amended: emit makes two separate writes, but it takes the device by
\* exclusive reference, so while a call is between its two writes it is the
\* call begun last, it holds the borrow, and no other thread is inside emit or
\* can enter it: no other call writes between a call's records and its
\* synchronization record.
C10_NoWriteBetween ==
    \A t \in Threads :
        pc[t] = "syn" =>
            /\ call.t = t /\ call.ret = "running"
            /\ borrow = t
            /\ \A u \in Threads \ {t} : pc[u] = "idle" /\ ~ENABLED EmitRecords(u)

\* a call has written its records and not yet its synchronization record
C10_Witness == \E t \in Threads : pc[t] = "syn" /\ Len(call.wrote) = MaxLen

----------------------------------------------------------------------------
(* Properties of the construction (Spec).                                  *)

\* the call before call i of the log is `op` and succeeded
After(i, op) == i > 1 /\ log[i - 1].op = op /\ log[i - 1].ok

IsEventOpen(e) == e.op = "open" /\ e.cat = "/dev/input"

DeclOps == BitOps \cup {"UI_SET_EVBIT"}

\* C3: every with_<category> call issues the event-type bit of its category
\* first; every per-code ioctl directly follows either the successful
\* event-type bit of its category or a successful per-code ioctl of the same
\* category with a smaller code; a call that returns Ok has issued every
\* code of its set.
C3_EventTypeBitThenCodesAscending ==
    /\ \A i \in 1..Len(log) :
        log[i].op \in BitOps =>
            /\ i > 1
            /\ log[i - 1].ok
            /\ \/ /\ log[i - 1].op = "UI_SET_EVBIT"
                  /\ log[i - 1].cat = CatOfOp(log[i].op)
               \/ /\ log[i - 1].op = log[i].op
                  /\ log[i - 1].code < log[i].code
    /\ Cardinality({i \in 1..Len(log) : log[i].op = "UI_SET_EVBIT"}) = decls
    /\ \A c \in Categories :
        asked[c] \subseteq {log[i].code : i \in {j \in 1..Len(log) :
                                CatOfOp(log[j].op) = c /\ log[j].ok}}

\* with_keys issued the event-type bit, then KEY_A, then KEY_CAPSLOCK
C3_Witness ==
    \E i \in 1..Len(log) :
        /\ i + 2 <= Len(log)
        /\ log[i].op = "UI_SET_EVBIT" /\ log[i].cat = "KEY"
        /\ log[i + 1].op = "UI_SET_KEYBIT" /\ log[i + 1].code = KEY_A
        /\ log[i + 2].op = "UI_SET_KEYBIT" /\ log[i + 2].code = KEY_CAPSLOCK
        /\ log[i + 2].ok

\* C4: create-device directly follows a successful setup-device, the
\* short-name query a successful create-device, the directory listing a
\* successful short-name query, the open of the event node a successful
\* listing; a device exists only after all of them succeeded and owns the
\* control handle and the event handle that open returned.
C4_FinalizationOrder ==
    /\ \A i \in 1..Len(log) :
        /\ log[i].op = "UI_DEV_CREATE" => After(i, "UI_DEV_SETUP")
        /\ log[i].op = "UI_GET_SYSNAME" => After(i, "UI_DEV_CREATE")
        /\ log[i].op = "read_dir" => After(i, "UI_GET_SYSNAME")
        /\ IsEventOpen(log[i]) => After(i, "read_dir")
    /\ stage = "device" =>
        /\ Len(log) >= 5
        /\ IsEventOpen(log[Len(log)]) /\ log[Len(log)].ok
        /\ file # 0
        /\ file_event = <<log[Len(log)].path>>
        /\ kstate = "created"

\* build returned a device
C4_Witness == stage = "device" /\ file_event = <<StrEvent3>>

\* C5: once build was called, it panicked exactly if the length L of the name
\* has L + 1 >= UINPUT_MAX_NAME_SIZE; with L + 1 < UINPUT_MAX_NAME_SIZE it
\* went on to the setup-device call.
C5_NameValidation ==
    builds >= 1 =>
        IF Len(name) + 1 >= UINPUT_MAX_NAME_SIZE
        THEN stage = "panicked"
        ELSE /\ stage # "panicked"
             /\ \E i \in 1..Len(log) : log[i].op = "UI_DEV_SETUP"

\* build was called with a name of UINPUT_MAX_NAME_SIZE - 1 bytes
C5_Witness ==
    builds = 1 /\ Len(name) = UINPUT_MAX_NAME_SIZE - 1 /\ stage = "panicked"

\* C6: when build fails the name validation, no setup-device and no
\* create-device call was issued on the handle and the kernel holds no setup
\* record and no device for it.
C6_NoFinalizationAfterBadName ==
    stage = "panicked" =>
        /\ \A i \in 1..Len(log) : log[i].op \notin {"UI_DEV_SETUP", "UI_DEV_CREATE"}
        /\ ksetup = <<>>
        /\ kstate = "gone"

\* build was called with a name as long as the name buffer
C6_Witness ==
    stage = "panicked" /\ builds = 1 /\ Len(name) = UINPUT_MAX_NAME_SIZE

\* C7: the key codes the kernel holds for a created device are exactly the
\* codes of the sets passed to with_keys, and the key event type is declared
\* with them.
C7_KeyCapabilitiesExact ==
    stage = "device" =>
        /\ kbits["KEY"] = asked["KEY"]
        /\ asked["KEY"] # {} => "KEY" \in kevbit

\* a device was built after with_keys({KEY_A, KEY_CAPSLOCK})
C7_Witness == stage = "device" /\ asked["KEY"] = KeyCodes /\ decls = 1

\* C9: no event-type bit and no per-code bit is declared after the
\* setup-device call, and build is called at most once on a builder.
C9_DeclarationsPrecedeFinalization ==
    /\ \A i \in 1..Len(log) : \A j \in 1..Len(log) :
        (i < j /\ log[i].op = "UI_DEV_SETUP") => log[j].op \notin DeclOps
    /\ Cardinality({i \in 1..Len(log) : log[i].op = "UI_DEV_SETUP"}) <= 1
    /\ builds <= 1

\* a device was built after two with_<category> calls
C9_Witness ==
    /\ builds = 1 /\ decls = MaxDecls /\ stage = "device"
    /\ \E i \in 1..Len(log) : log[i].op \in BitOps

----------------------------------------------------------------------------
(* Properties of the state queries (SpecQuery).                            *)

\* a step of one of the six state queries
QueryStep ==
    \/ get_key_state
    \/ update_key_state
    \/ get_switch_state
    \/ update_switch_state
    \/ get_led_state
    \/ update_led_state

\* C11: every step of get_key_state, get_switch_state, get_led_state,
\* update_key_state, update_switch_state or update_led_state issues its ioctl
\* on the event handle file_event, and leaves the kernel-held state of the
\* device, its declared capabilities, its registration and both handles as
\* they were, and writes no event record.
C11_QueriesReadOnly ==
    [][QueryStep =>
        /\ qcall' # <<>>
        /\ qcall'[1].fd = "file_event"
        /\ UNCHANGED <<kval, kevbit, kbits, kstate, ksetup, file, file_event, log, ktopo>>
        /\ call'.wrote = <<>>]_vars

\* an LED query returned the LEDs that are on while a key is held
C11_Witness ==
    /\ qcall # <<>>
    /\ qcall[1].op = "EVIOCGLED" /\ qcall[1].ok
    /\ qcall[1].val = {LED_CAPSL}
    /\ kval["LED"] = {LED_CAPSL}
    /\ kval["KEY"] # {}

----------------------------------------------------------------------------
(* Properties of the errors of the construction (Spec).                    *)

\* C12, as stated: when the topology directory cannot be listed, or its
\* listing is exhausted without an "event" entry, build returns an error of
\* kind NotFound and no VirtualDevice.
C12_DiscoveryFailsNotFound ==
    (Len(log) > 0 /\ log[Len(log)].op = "read_dir") =>
        /\ stage = "closed" /\ file_event = <<>>
        /\ err # <<>> /\ err[1].kind = "NotFound"

\* C12, amended: when the topology directory cannot be listed, build returns
\* the OS error of the listing, whose kind is NotFound only for ENOENT; when
\* the listing is exhausted without an "event" entry, build returns the
\* NotFound error the code makes; in both cases no VirtualDevice is produced.
C12_DiscoveryFailure ==
    (Len(log) > 0 /\ log[Len(log)].op = "read_dir") =>
        /\ stage = "closed" /\ file_event = <<>>
        /\ IF log[Len(log)].ok
           THEN err = <<[kind |-> "NotFound", os |-> <<>>]>>
           ELSE /\ err # <<>> /\ err[1].os # <<>>
                /\ err[1].os[1] \in {"ENOENT", "EACCES"}
                /\ (err[1].kind = "NotFound") = (err[1].os[1] = "ENOENT")

\* the listing of the directory of the created device failed with EACCES
C12_Witness ==
    /\ Len(log) > 0 /\ log[Len(log)].op = "read_dir" /\ ~log[Len(log)].ok
    /\ log[Len(log)].path = <<105, 110, 112, 117, 116, 55>>
    /\ err # <<>> /\ err[1].kind = "PermissionDenied"

CreateFailed ==
    /\ Len(log) >= 2
    /\ log[Len(log)].op = "UI_DEV_CREATE" /\ ~log[Len(log)].ok
    /\ log[Len(log) - 1].op = "UI_DEV_SETUP" /\ log[Len(log) - 1].ok

\* C14, as stated: when setup-device succeeds and create-device fails, build
\* returns an error, issues no further call, and the device stays set up but
\* not created behind the handle.
C14_LeftPartiallyRegistered ==
    CreateFailed =>
        /\ stage = "closed" /\ err # <<>>
        /\ ksetup # <<>>
        /\ kstate = "setup"

\* C14, amended: when setup-device succeeds and create-device fails, build
\* returns the OS error of create-device and issues no rollback, destroy or
\* other call after it; the kernel had received the setup record, but the
\* control handle is closed as build returns, so the set-up device does not
\* outlive the call.
C14_CreateFailureNoRollback ==
    CreateFailed =>
        /\ stage = "closed"
        /\ err # <<>> /\ err[1].os # <<>>
        /\ \A i \in 1..Len(log) : log[i].op \in
                DeclOps \cup {"open", "UI_DEV_SETUP", "UI_DEV_CREATE"}
        /\ ksetup # <<>>
        /\ file = 0
        /\ file_event = <<>>
        /\ kstate = "gone"

\* create-device failed on a device with declared keys
C14_Witness == CreateFailed /\ asked["KEY"] = KeyCodes /\ err # <<>>

\* C15: the setup record the kernel received has ff_effects_max 0, a name
\* buffer of UINPUT_MAX_NAME_SIZE bytes holding the L bytes of the builder's
\* name followed by zero bytes only, at least one of them, and the bus
\* identity given to input_id, or {BUS_USB, 0x1234, 0x5678, 0x111} if none was.
C15_SetupRecord ==
    ksetup # <<>> =>
        LET u == ksetup[1]
            L == Len(name)
        IN  /\ u.ff_effects_max = 0
            /\ Len(u.name) = 80
            /\ L < Len(u.name)
            /\ \A k \in 1..L : u.name[k] = name[k]
            /\ \A k \in (L + 1)..Len(u.name) : u.name[k] = 0
            /\ u.name[L + 1] = 0
            /\ u.id = IF id = <<>>
                      THEN [bustype |-> 3, vendor |-> 4660, product |-> 22136,
                            version |-> 273]
                      ELSE id[1]

\* the kernel received a setup record with the longest name that passes the
\* assertion and the default bus identity
C15_Witness ==
    /\ ksetup # <<>>
    /\ Len(name) = UINPUT_MAX_NAME_SIZE - 2
    /\ id = <<>>
    /\ ksetup[1].name[UINPUT_MAX_NAME_SIZE - 2] # 0

\* C16, as stated: the name of the topology directory that is listed is the
\* bytes of the short-name buffer before its first zero byte, and the whole
\* 32-byte buffer if it holds no zero byte.
C16_DecodesFullBufferWithoutNul ==
    \A i \in 2..Len(log) :
        log[i].op = "read_dir" =>
            LET buf == log[i - 1].path
                zs == {k \in 1..Len(buf) : buf[k] = 0}
            IN  /\ log[i - 1].op = "UI_GET_SYSNAME"
                /\ Len(buf) = 32
                /\ log[i].path = IF zs = {} THEN buf
                                 ELSE SubSeq(buf, 1, (CHOOSE k \in zs : \A j \in zs : k <= j) - 1)

\* the event entries of a listing: the names of its readable entries that
\* start with "event"
EventEntries(listing) ==
    {listing[i].fname : i \in {j \in 1..Len(listing) :
        listing[j].ok /\ StartsWith(listing[j].fname, <<101, 118, 101, 110, 116>>)}}

Created ==
    \E i \in 1..(Len(log) - 1) :
        /\ log[i].op = "UI_DEV_SETUP" /\ log[i].ok
        /\ log[i + 1].op = "UI_DEV_CREATE" /\ log[i + 1].ok

\* C18: discovery is a single pass: the short name is queried once, the
\* directory is listed at most once and at most one node is opened; when the
\* kernel has created the device and the listing shows no "event" entry yet,
\* or the node of the entry cannot be opened yet, build returns that error
\* at once and the created device is given up with the control handle.
C18_SinglePassDiscovery ==
    /\ Cardinality({i \in 1..Len(log) : log[i].op = "UI_GET_SYSNAME"}) <= 1
    /\ Cardinality({i \in 1..Len(log) : log[i].op = "read_dir"}) <= 1
    /\ Cardinality({i \in 1..Len(log) : log[i].op = "open" /\ log[i].cat = "/dev/input"}) <= 1
    /\ (Created /\ log[Len(log)].op = "read_dir" /\ log[Len(log)].ok) =>
        /\ stage = "closed" /\ file_event = <<>> /\ kstate = "gone"
        /\ err = <<[kind |-> "NotFound", os |-> <<>>]>>
    /\ (Created /\ log[Len(log)].op = "open" /\ ~log[Len(log)].ok) =>
        /\ stage = "closed" /\ file_event = <<>> /\ kstate = "gone"
        /\ err # <<>> /\ err[1].os # <<>>

\* the kernel created the device, its directory was listed before the event
\* entry was in it, and build returned NotFound
C18_Witness ==
    /\ Created
    /\ log[Len(log)].op = "read_dir" /\ log[Len(log)].ok
    /\ log[Len(log)].path = <<105, 110, 112, 117, 116, 55>>
    /\ stage = "closed"
    /\ err # <<>> /\ err[1].kind = "NotFound"
    /\ builds = 1

\* C19: once open, with_<category> or build has returned an error, the control
\* handle is closed and no event handle is open, the kernel holds no device
\* that was set up or created through the handle, and no builder is left on
\* which a declaration, setup-device or create-device could be issued.
C19_ErrorExitsReleaseHandle ==
    err # <<>> =>
        /\ stage = "closed"
        /\ file = 0
        /\ file_event = <<>>
        /\ kstate = "gone"
        /\ ~ENABLED build
        /\ ~ENABLED with_keys

\* build failed at the short-name query, after the kernel created the device
C19_Witness ==
    /\ err # <<>>
    /\ Created
    /\ log[Len(log)].op = "UI_GET_SYSNAME" /\ ~log[Len(log)].ok
    /\ ksetup # <<>>

----------------------------------------------------------------------------
(* Properties of the errors of emit (SpecDevice).                          *)

\* C20: a synchronization record among the records an emit call wrote comes
\* directly after all of the caller's records; a call whose write of the
\* caller's records failed has returned the error, is not on its way to the
\* second write, and wrote no synchronization record.
C20_NoSynAfterFailedWrite ==
    /\ \A k \in 1..Len(call.wrote) :
        call.wrote[k] = [type |-> "SYN", code |-> 0, value |-> 0] =>
            /\ k = Len(call.messages) + 1
            /\ SubSeq(call.wrote, 1, k - 1) = call.messages
    /\ (call.t # 0 /\ Len(call.wrote) < Len(call.messages)) =>
        /\ call.ret = "Err"
        /\ pc[call.t] = "idle"
        /\ borrow # call.t
        /\ \A k \in 1..Len(call.wrote) : call.wrote[k].type # "SYN"

\* the write of two records failed after the first of them
C20_Witness ==
    /\ call.ret = "Err"
    /\ Len(call.messages) = MaxLen
    /\ Len(call.wrote) = MaxLen - 1

====
